---- MODULE Spec2Model ----
(***************************************************************************)
(* generic_abstract_factory: a model of the compile-time machinery         *)
(* (trait resolution, creator chain generation, static assertions,         *)
(* overload selection of abstract_factory::create) and of the run-time     *)
(* behaviour of the creators (default, value, prototype) of the demo       *)
(* program.  Template instantiation is modelled as evaluation of           *)
(* operators over records describing types; a static_assert that fires is  *)
(* a diagnostic added to the set diags and makes the program ill-formed.   *)
(***************************************************************************)
EXTENDS Integers, Sequences, FiniteSets, TLC

\* ---------------------------------------------------------------- bounds
MaxLen == 2        \* longest abstract / concrete type list enumerated
MaxCalls == 3      \* run-time operations executed on one factory
MaxArgs == 2       \* longest argument list of a create call site

\* ----------------------------------------------------------- diagnostics
WrongProductType == "abstract_factory::create(): wrong product type"
WrongArguments == "abstract_factory::create(): wrong arguments"
DifferentLength == "Abstract and concrete lists are of different length"
NotConstructible == "Product is not constructible from a given set of arguments"
RetNotConstructible == "ret_type is not constructible from Concrete*"
\* generate_creators has only a declaration as primary template: using it
\* with an empty list names an incomplete type
IncompleteType == "incomplete type generate_creators"
\* the same Creator<Abstract> twice in the base list of abstract_factory
DuplicateBase == "duplicate base type"

\* ------------------------------------------------------- types and values
ArithmeticTypes == {"bool", "int", "float", "double"}

\* result types: k is unique (std::unique_ptr<of>), shared
\* (std::shared_ptr<of>), raw (of*) or value (of)
unique_ptr(n) == [k |-> "unique", of |-> n]
shared_ptr(n) == [k |-> "shared", of |-> n]
raw_ptr(n) == [k |-> "raw", of |-> n]
value_of(n) == [k |-> "value", of |-> n]
NoType == [k |-> "none", of |-> "none"]

\* a scalar value: its type and twice its magnitude (so that 0.5 is h = 1)
Val(t, h) == [t |-> t, h |-> h]
NoVal == Val("none", 0)

\* standard conversion sequence of the language for passing `from` to a
\* by-value parameter of type `to`
ImplicitlyConvertible(from, to) ==
    \/ from = to
    \/ from \in ArithmeticTypes /\ to \in ArithmeticTypes
    \/ from = "cstr" /\ to = "bool"

\* the value a by-value parameter of type `to` receives
Convert(v, to) ==
    IF v.t = to THEN v
    ELSE IF to = "bool" THEN Val("bool", IF v.t = "cstr" \/ v.h # 0 THEN 2 ELSE 0)
    ELSE IF to = "int" THEN Val("int", (v.h \div 2) * 2)
    ELSE Val(to, v.h)

ConvertAll(vs, tos) == [i \in 1..Len(vs) |-> Convert(vs[i], tos[i])]
TypesOf(vs) == [i \in 1..Len(vs) |-> vs[i].t]

\* ------------------------------------------------------------ descriptors
\* an interface without ret_type / ctor_args / prototype_t members
Interface(n) ==
    [name |-> n, bases |-> {n}, hasRet |-> FALSE, ret |-> NoType,
     hasArgs |-> FALSE, args |-> <<>>, proto |-> FALSE]

make_factory_interface_args(w, T, Args) ==
    [T EXCEPT !.name = w, !.bases = T.bases \cup {w},
              !.hasArgs = TRUE, !.args = Args]

make_factory_interface(w, T, Ret, Args) ==
    [T EXCEPT !.name = w, !.bases = T.bases \cup {w},
              !.hasRet = TRUE, !.ret = Ret,
              !.hasArgs = TRUE, !.args = Args]

IUniqueProduct == Interface("IUniqueProduct")
ISharedProduct ==
    [Interface("ISharedProduct") EXCEPT !.hasRet = TRUE,
                                        !.ret = shared_ptr("ISharedProduct")]
IRawProduct ==
    [Interface("IRawProduct") EXCEPT !.hasRet = TRUE,
                                     !.ret = raw_ptr("IRawProduct"),
                                     !.hasArgs = TRUE,
                                     !.args = <<"bool", "int">>]
IValueProduct(n, T) ==
    [Interface(n) EXCEPT !.hasRet = TRUE, !.ret = value_of(T),
                         !.hasArgs = TRUE, !.args = <<T>>]
IIntValue == IValueProduct("IValueProduct<int>", "int")
IFloatValue == IValueProduct("IValueProduct<float>", "float")
IPrototypeProduct(n) == [Interface(n) EXCEPT !.proto = TRUE]
IPrototypeProductA == IPrototypeProduct("IPrototypeProduct<0>")
IPrototypeProductB == IPrototypeProduct("IPrototypeProduct<1>")
IExistingSharedProduct == Interface("IExistingSharedProduct")
IExistingFactoryProduct ==
    make_factory_interface("IExistingFactoryProduct", IExistingSharedProduct,
                           shared_ptr("IExistingSharedProduct"), <<>>)

\* the interfaces of the README
IProductA == Interface("IProductA")
IProductC == Interface("IProductC")
IAdaptedArgs ==
    make_factory_interface_args("IAdaptedArgs", IProductA, <<"int", "bool">>)
IAdaptedBoth ==
    make_factory_interface("IAdaptedBoth", IProductA,
                           shared_ptr("IProductA"), <<"int", "bool">>)
\* a value contract whose result is the implementation itself, by value
IProductAValue ==
    make_factory_interface("IProductAValue", IProductA,
                           value_of("ProductA"), <<"int", "bool">>)

\* -------------------------------------------------------- implementations
\* a class: the types its pointer converts to, its constructors' parameter
\* lists, and whether it has pure virtual members
Class(n, bases, ctors, abstract) ==
    [name |-> n, bases |-> bases \cup {n}, ctors |-> ctors,
     abstract |-> abstract]

\* a descriptor used as entry of the concrete list (the demo lists
\* IValueProduct<T> and IPrototypeProduct<N> there)
AsConcrete(d) == Class(d.name, d.bases, {<<>>}, d.proto)

UniqueProduct == Class("UniqueProduct", {"IUniqueProduct"}, {<<>>}, FALSE)
SharedProduct == Class("SharedProduct", {"ISharedProduct"}, {<<>>}, FALSE)
RawProduct ==
    Class("RawProduct", {"IRawProduct"}, {<<"bool", "int">>}, FALSE)
ExistingSharedProduct ==
    Class("ExistingSharedProduct", {"IExistingSharedProduct"}, {<<>>}, FALSE)
PrototypeProduct(n, iface) == Class(n, {iface}, {<<>>}, FALSE)
PrototypeProductA == PrototypeProduct("PrototypeProduct<0>", "IPrototypeProduct<0>")
PrototypeProductB == PrototypeProduct("PrototypeProduct<1>", "IPrototypeProduct<1>")
ProductA == Class("ProductA", {"IProductA"}, {<<"int", "bool">>}, FALSE)

\* --------------------------------------------------------- trait resolver
get_ctor_args(T) == IF T.hasArgs THEN T.args ELSE <<>>

\* a resolver that never finds T::ret_type
get_ret_type_ignoring_trait(T, Default) == Default

get_ret_type(T, Default) == IF T.hasRet THEN T.ret ELSE Default

\* the context (Abstract, Ret, tl<Args...>) of abstract_creator_interface
default_abstract_creator(Abstract) ==
    [abstract |-> Abstract,
     ret |-> get_ret_type(Abstract, unique_ptr(Abstract.name)),
     args |-> get_ctor_args(Abstract)]

context_list(AbstractList) ==
    [i \in 1..Len(AbstractList) |-> default_abstract_creator(AbstractList[i])]

\* ------------------------------------------------------ creator templates
DefaultCreator == "default_concrete_creator"
CustomCreator == "CustomConcreteCreator"

has_prototype(T) == T.proto

is_any_of(Target, list) == \E i \in 1..Len(list) : list[i] = Target

\* which definition of Creator<Context, Concrete, Base> is instantiated
CustomConcreteCreator(Context) ==
    IF Len(Context.args) = 1
       /\ is_any_of(Context.abstract, <<IIntValue, IFloatValue>>)
    THEN "value"
    ELSE IF has_prototype(Context.abstract) THEN "prototype"
    ELSE "default"

PolicyOf(Creator, Context) ==
    IF Creator = CustomCreator THEN CustomConcreteCreator(Context)
    ELSE "default"

\* std::is_constructible<Concrete, Args...>
is_constructible(Concrete, Args) ==
    /\ ~Concrete.abstract
    /\ \E sig \in Concrete.ctors :
          /\ Len(sig) = Len(Args)
          /\ \A i \in 1..Len(sig) : ImplicitlyConvertible(Args[i], sig[i])

\* std::is_constructible<Ret, Concrete*>
is_constructible_from_ptr(Ret, Concrete) ==
    /\ Ret.k \in {"unique", "shared", "raw"}
    /\ Ret.of \in Concrete.bases

\* a creator that checks the constructor arguments only
default_concrete_creator_asserts_ctor_only(Context, Concrete) ==
    IF is_constructible(Concrete, Context.args) THEN {}
    ELSE {NotConstructible}

\* the static assertions of default_concrete_creator
default_concrete_creator_asserts(Context, Concrete) ==
    (IF is_constructible(Concrete, Context.args) THEN {}
     ELSE {NotConstructible})
    \cup
    (IF is_constructible_from_ptr(Context.ret, Concrete) THEN {}
     ELSE {RetNotConstructible})

creator_asserts(Creator, Context, Concrete) ==
    IF PolicyOf(Creator, Context) = "default"
    THEN default_concrete_creator_asserts(Context, Concrete)
    ELSE {}

\* ---------------------------------------------------------- chain builder
\* the base of a creator: the abstract factory (Root) under the last
\* creator, the rest of the chain under every other
Root == "abstract_factory"
RestOfChain == "generate_creators::type"

\* one element of the chain: Creator<Context, C0, Base>
Link(Creator, Context, C0, Base) ==
    [context |-> Context, concrete |-> C0,
     policy |-> PolicyOf(Creator, Context), base |-> Base]

\* a builder that takes the implementations from the far end of their list
generate_creators_reversed(Creator, Contexts, Cs) ==
    IF Len(Contexts) >= 1 /\ Len(Contexts) = Len(Cs)
    THEN [type |-> [i \in 1..Len(Contexts) |->
                       Link(Creator, Contexts[i], Cs[Len(Cs) + 1 - i],
                            IF i = Len(Contexts) THEN Root
                            ELSE RestOfChain)],
          diags |-> {}]
    ELSE [type |-> <<>>, diags |-> {IncompleteType}]

RECURSIVE generate_creators(_, _, _)
generate_creators(Creator, Contexts, Cs) ==
    IF Len(Contexts) = 1 /\ Len(Cs) = 1
    THEN [type |-> <<Link(Creator, Contexts[1], Cs[1], Root)>>,
          diags |-> {}]
    ELSE IF Len(Contexts) >= 1 /\ Len(Cs) >= 1
    THEN LET rest == generate_creators(Creator, Tail(Contexts), Tail(Cs))
         IN  [type |-> <<Link(Creator, Contexts[1], Cs[1], RestOfChain)>>
                        \o rest.type,
              diags |-> (IF Len(Contexts) - 1 = Len(Cs) - 1 THEN {}
                         ELSE {DifferentLength}) \cup rest.diags]
    ELSE [type |-> <<>>, diags |-> {IncompleteType}]

\* ------------------------------------------------------------------ state
VARIABLES
    abstractList,   \* AbstractList of abstract_factory
    concreteList,   \* ConcreteList of concrete_factory
    creator,        \* Creator template argument of concrete_factory
    phase,          \* configured, assembled, ill_formed or crashed
    diags,          \* diagnostics the build has issued
    chain,          \* generate_creators<...>::type of the factory object
    prototype,      \* per chain position: the held exemplar, 0 = empty handle
    heap,           \* objects constructed so far, an object's id is its index
    last,           \* the last call: what was asked and what came of it
    nCalls          \* run-time operations executed so far

vars == <<abstractList, concreteList, creator, phase, diags, chain,
          prototype, heap, last, nCalls>>

NoCall ==
    [op |-> "none", d |-> "none", args |-> <<>>, kind |-> "none",
     diags |-> {}, retType |-> NoType, obj |-> 0, val |-> NoVal,
     creator |-> 0]

Object(cls, ctorArgs, clonedFrom) ==
    [cls |-> cls, ctorArgs |-> ctorArgs, clonedFrom |-> clonedFrom]

\* ------------------------------------------------------------ input sets
\* the entries of the type lists InitAny enumerates: an interface without
\* traits, a value, a prototype, and the three forms of adapted interface
Descriptors ==
    {IExistingSharedProduct, IExistingFactoryProduct, IIntValue,
     IPrototypeProductA, IAdaptedArgs, IAdaptedBoth, IProductAValue}

Concretes ==
    {ExistingSharedProduct, AsConcrete(IIntValue),
     AsConcrete(IPrototypeProductA), ProductA}

\* the descriptors a call site may name
CallDescriptors ==
    Descriptors \cup {IUniqueProduct, ISharedProduct, IRawProduct,
                      IFloatValue, IPrototypeProductB, IProductC}

ArgValues == {Val("bool", 2), Val("int", 24), Val("double", 1), Val("cstr", 0)}

PrototypeClasses == {PrototypeProductA, PrototypeProductB}

SeqUpTo(S, n) == UNION {[1..k -> S] : k \in 0..n}

\* AFactory and CFactory of the demo program
DemoAbstractList ==
    <<IUniqueProduct, ISharedProduct, IRawProduct, IIntValue, IFloatValue,
      IPrototypeProductA, IPrototypeProductB, IExistingFactoryProduct>>

DemoConcreteList ==
    <<UniqueProduct, SharedProduct, RawProduct, AsConcrete(IIntValue),
      AsConcrete(IFloatValue), AsConcrete(IPrototypeProductA),
      AsConcrete(IPrototypeProductB), ExistingSharedProduct>>

InitRest ==
    /\ phase = "configured"
    /\ diags = {}
    /\ chain = <<>>
    /\ prototype = <<>>
    /\ heap = <<>>
    /\ last = NoCall
    /\ nCalls = 0

\* the configuration of the demo program, or the one of the README's
\* "Adapt existing interfaces"
Init ==
    /\ \/ /\ abstractList = DemoAbstractList
          /\ concreteList = DemoConcreteList
          /\ creator = CustomCreator
       \/ /\ abstractList = <<IAdaptedBoth>>
          /\ concreteList = <<ProductA>>
          /\ creator = DefaultCreator
    /\ InitRest

\* any configuration over the input sets
InitAny ==
    /\ abstractList \in SeqUpTo(Descriptors, MaxLen)
    /\ concreteList \in SeqUpTo(Concretes, MaxLen)
    /\ creator \in {DefaultCreator, CustomCreator}
    /\ InitRest

\* ----------------------------------------------------------- instantiation
\* protected Creator<AbstractList>... : a type may be a direct base once
HasDuplicates(list) ==
    \E i, j \in 1..Len(list) : i # j /\ list[i] = list[j]

\* the diagnostics and the chain of concrete_factory<AbstractFactory,
\* ConcreteList, Creator>
concrete_factory(AbstractList, ConcreteList, Creator) ==
    LET g == generate_creators(Creator, context_list(AbstractList),
                               ConcreteList)
        ca == IF g.diags = {}
              THEN UNION {creator_asserts(Creator, g.type[i].context,
                                          g.type[i].concrete) :
                          i \in 1..Len(g.type)}
              ELSE {}
        dup == IF HasDuplicates(AbstractList) THEN {DuplicateBase} ELSE {}
    IN  [type |-> g.type, diags |-> g.diags \cup ca \cup dup]

Instantiate ==
    /\ phase = "configured"
    /\ LET f == concrete_factory(abstractList, concreteList, creator)
       IN  /\ diags' = f.diags
           /\ phase' = IF f.diags = {} THEN "assembled" ELSE "ill_formed"
           /\ chain' = IF f.diags = {} THEN f.type ELSE <<>>
           /\ prototype' = IF f.diags = {}
                           THEN [i \in 1..Len(f.type) |-> 0] ELSE <<>>
    /\ UNCHANGED <<abstractList, concreteList, creator, heap, last, nCalls>>

\* ------------------------------------------------- abstract_factory::create
\* std::is_base_of<Creator<Abstract>, abstract_factory>
is_base_of(Abstract, AbstractList) ==
    \E i \in 1..Len(AbstractList) : AbstractList[i] = Abstract

\* an invocability test that takes no conversion of an argument
is_invocable_memfn_exact(Abstract, Args) ==
    Args = default_abstract_creator(Abstract).args

\* is_invocable_memfn<decltype(&Creator<Abstract>::create),
\*                    type_identity<Abstract>, Args...>
is_invocable_memfn(Abstract, Args) ==
    LET params == default_abstract_creator(Abstract).args
    IN  /\ Len(Args) = Len(params)
        /\ \A i \in 1..Len(params) : ImplicitlyConvertible(Args[i], params[i])

\* the dispatching overload takes part in overload resolution
dispatch_enabled(Abstract, Args, AbstractList) ==
    is_base_of(Abstract, AbstractList) /\ is_invocable_memfn(Abstract, Args)

\* the overload returning convertible_to_any takes part
diagnostic_enabled(Abstract, Args, AbstractList) ==
    ~is_base_of(Abstract, AbstractList) \/ ~is_invocable_memfn(Abstract, Args)

\* a body that tests the arguments first and the product type only if
\* they fit
create_asserts_arguments_first(Abstract, Args, AbstractList) ==
    IF ~is_invocable_memfn(Abstract, Args) THEN {WrongArguments}
    ELSE IF ~is_base_of(Abstract, AbstractList) THEN {WrongProductType}
    ELSE {}

\* the static assertions in the body of the diagnostic overload
create_asserts(Abstract, Args, AbstractList) ==
    (IF is_base_of(Abstract, AbstractList) THEN {} ELSE {WrongProductType})
    \cup
    (IF is_invocable_memfn(Abstract, Args) THEN {} ELSE {WrongArguments})

\* Creator<Abstract>* creator = this; creator->create(...): the final
\* overrider of that interface's create in the chain
final_overrider(Abstract, Chain) ==
    CHOOSE i \in 1..Len(Chain) :
        Chain[i].context = default_abstract_creator(Abstract)

Returned(d, args, ctx, i, obj, val) ==
    [op |-> "create", d |-> d.name, args |-> args, kind |-> "returned",
     diags |-> {}, retType |-> ctx.ret, obj |-> obj, val |-> val,
     creator |-> i]

\* a creator that does not forward its arguments to the constructor
default_concrete_creator_create_no_forward(d, args, i) ==
    LET ctx == chain[i].context
    IN  /\ heap' = Append(heap, Object(chain[i].concrete.name, <<>>, 0))
        /\ last' = [op |-> "create", d |-> d.name, args |-> args,
                    kind |-> "returned", diags |-> {}, retType |-> ctx.ret,
                    obj |-> Len(heap) + 1, val |-> NoVal, creator |-> i]
        /\ UNCHANGED <<phase, prototype>>

\* Ret{ new Concrete(std::forward<Args>(args)...) }
default_concrete_creator_create(d, args, i) ==
    LET ctx == chain[i].context
    IN  /\ heap' = Append(heap, Object(chain[i].concrete.name,
                                       ConvertAll(args, ctx.args), 0))
        /\ last' = Returned(d, args, ctx, i, Len(heap) + 1, NoVal)
        /\ UNCHANGED <<phase, prototype>>

\* the README's value creator: return 12;
value_creator_create_constant(d, args, i) ==
    LET ctx == chain[i].context
    IN  /\ last' = [op |-> "create", d |-> d.name, args |-> args,
                    kind |-> "returned", diags |-> {}, retType |-> ctx.ret,
                    obj |-> 0, val |-> Val(ctx.ret.of, 24), creator |-> i]
        /\ UNCHANGED <<phase, prototype, heap>>

\* return arg;
value_creator_create(d, args, i) ==
    LET ctx == chain[i].context
    IN  /\ last' = Returned(d, args, ctx, i, 0,
                            Convert(Convert(args[1], ctx.args[1]), ctx.ret.of))
        /\ UNCHANGED <<phase, prototype, heap>>

\* return prototype->Clone(); with an empty handle the behaviour is
\* undefined: the call traps, or returns whatever it finds
prototype_creator_create(d, args, i) ==
    LET ctx == chain[i].context
    IN  IF prototype[i] # 0
        THEN /\ heap' = Append(heap, Object(heap[prototype[i]].cls, <<>>,
                                            prototype[i]))
             /\ last' = Returned(d, args, ctx, i, Len(heap) + 1, NoVal)
             /\ UNCHANGED <<phase, prototype>>
        ELSE \/ /\ phase' = "crashed"
                /\ last' = [Returned(d, args, ctx, i, 0, NoVal)
                              EXCEPT !.kind = "crashed"]
                /\ UNCHANGED <<prototype, heap>>
             \/ /\ last' = Returned(d, args, ctx, i, 0, NoVal)
                /\ UNCHANGED <<phase, prototype, heap>>

CreateDispatch(d, args) ==
    /\ phase = "assembled"
    /\ nCalls < MaxCalls
    /\ dispatch_enabled(d, TypesOf(args), abstractList)
    /\ LET i == final_overrider(d, chain)
       IN  CASE chain[i].policy = "default" ->
                    default_concrete_creator_create(d, args, i)
             [] chain[i].policy = "value" -> value_creator_create(d, args, i)
             [] chain[i].policy = "prototype" ->
                    prototype_creator_create(d, args, i)
    /\ nCalls' = nCalls + 1
    /\ UNCHANGED <<abstractList, concreteList, creator, diags, chain>>

\* the call site selects the overload whose body fails to compile
CreateDiagnostic(d, args) ==
    /\ phase = "assembled"
    /\ nCalls < MaxCalls
    /\ diagnostic_enabled(d, TypesOf(args), abstractList)
    /\ LET ds == create_asserts(d, TypesOf(args), abstractList)
       IN  /\ diags' = diags \cup ds
           /\ phase' = "ill_formed"
           /\ last' = [NoCall EXCEPT !.op = "create", !.d = d.name,
                                     !.args = args, !.kind = "static_assert",
                                     !.diags = ds]
    /\ UNCHANGED <<abstractList, concreteList, creator, chain, prototype,
                   heap, nCalls>>

\* one exemplar shared by every prototype creator of the factory
SetPrototype_shared(i, cls, empty) ==
    /\ phase = "assembled"
    /\ nCalls < MaxCalls
    /\ i \in 1..Len(chain)
    /\ chain[i].policy = "prototype"
    /\ chain[i].context.abstract.name \in cls.bases
    /\ IF empty
       THEN /\ prototype' = [j \in 1..Len(chain) |-> 0]
            /\ UNCHANGED heap
       ELSE /\ heap' = Append(heap, [cls |-> cls.name, ctorArgs |-> <<>>,
                                     clonedFrom |-> 0])
            /\ prototype' = [j \in 1..Len(chain) |->
                                IF chain[j].policy = "prototype"
                                THEN Len(heap) + 1 ELSE prototype[j]]
    /\ last' = [op |-> "SetPrototype",
                d |-> chain[i].context.abstract.name, args |-> <<>>,
                kind |-> "returned", diags |-> {}, retType |-> NoType,
                obj |-> 0, val |-> NoVal, creator |-> i]
    /\ nCalls' = nCalls + 1
    /\ UNCHANGED <<abstractList, concreteList, creator, phase, diags, chain>>

\* self.prototype = std::move(newPrototype); the caller hands over a fresh
\* exemplar of class cls, or an empty handle
SetPrototype(i, cls, empty) ==
    /\ phase = "assembled"
    /\ nCalls < MaxCalls
    /\ i \in 1..Len(chain)
    /\ chain[i].policy = "prototype"
    /\ chain[i].context.abstract.name \in cls.bases
    /\ IF empty
       THEN /\ prototype' = [prototype EXCEPT ![i] = 0]
            /\ UNCHANGED heap
       ELSE /\ heap' = Append(heap, Object(cls.name, <<>>, 0))
            /\ prototype' = [prototype EXCEPT ![i] = Len(heap) + 1]
    /\ last' = [NoCall EXCEPT !.op = "SetPrototype",
                              !.d = chain[i].context.abstract.name,
                              !.kind = "returned", !.creator = i]
    /\ nCalls' = nCalls + 1
    /\ UNCHANGED <<abstractList, concreteList, creator, phase, diags, chain>>

\* --------------------------------------------------------- specifications
ArgLists == SeqUpTo(ArgValues, MaxArgs)

Dispatch ==
    \E d \in CallDescriptors : \E args \in ArgLists : CreateDispatch(d, args)

Diagnose ==
    \E d \in CallDescriptors : \E args \in ArgLists : CreateDiagnostic(d, args)

SetProto ==
    \E i \in 1..Len(chain) : \E cls \in PrototypeClasses :
        \E empty \in BOOLEAN : SetPrototype(i, cls, empty)

\* runs of the programs that build: the demo's and the README's factory
Next == Instantiate \/ Dispatch \/ SetProto

Spec == Init /\ [][Next]_vars

\* the same factories and one call site, accepted or not
NextCalls == Instantiate \/ (nCalls = 0 /\ (Dispatch \/ Diagnose))

SpecCalls == Init /\ [][NextCalls]_vars

\* every configuration over the input sets, and its first call
NextBuild == Instantiate \/ (nCalls = 0 /\ Dispatch)

SpecBuild == InitAny /\ [][NextBuild]_vars

\* every configuration over the input sets, and its first two operations
NextBind == Instantiate \/ (nCalls <= 1 /\ (Dispatch \/ SetProto))

SpecBind == InitAny /\ [][NextBind]_vars

\* ------------------------------------------------------------- properties
RegisteredNames == {abstractList[i].name : i \in 1..Len(abstractList)}

DescriptorNamed(n) == CHOOSE d \in CallDescriptors : d.name = n

\* what a descriptor declares, read off its members
DeclaredRet(D) == IF D.hasRet THEN D.ret ELSE unique_ptr(D.name)

DeclaredArgs(D) == IF D.hasArgs THEN D.args ELSE <<>>

\* the last operation was create<D> and it reached a creator
Dispatched == last.op = "create" /\ last.creator # 0

C2_WrongProductType ==
    (last.op = "create" /\ last.d \notin RegisteredNames) =>
        /\ last.kind = "static_assert"
        /\ WrongProductType \in last.diags
        /\ WrongProductType \in diags
        /\ phase = "ill_formed"
        /\ last.creator = 0
        /\ last.obj = 0
        /\ nCalls = 0
        /\ heap = <<>>
        /\ \A i \in 1..Len(prototype) : prototype[i] = 0

\* create<IProductC>(a, b) on a factory that does not list IProductC
C2_Witness ==
    /\ last.op = "create"
    /\ last.d = IProductC.name
    /\ last.d \notin RegisteredNames
    /\ Len(last.args) = 2
    /\ last.kind = "static_assert"

ArgsConvertible(types, params) ==
    /\ Len(types) = Len(params)
    /\ \A i \in 1..Len(params) : ImplicitlyConvertible(types[i], params[i])

\* C3 as stated: a call for a registered D is dispatched only when the
\* argument types are exactly D's resolved argument sequence, and every
\* other call is rejected with "wrong arguments".
C3_ExactMatchOnly ==
    (last.op = "create" /\ last.d \in RegisteredNames) =>
        IF TypesOf(last.args) = DeclaredArgs(DescriptorNamed(last.d))
        THEN Dispatched
        ELSE last.kind = "static_assert" /\ last.diags = {WrongArguments}

\* C3 as amended: a call for a registered D is dispatched exactly when it
\* has as many arguments as D's resolved argument sequence and each is
\* implicitly convertible to the parameter at its position; every other
\* call is rejected with "wrong arguments" alone (never "wrong product
\* type"); for every (D, args) exactly one of the two overloads applies.
C3_ConvertibleMatch ==
    /\ (last.op = "create" /\ last.d \in RegisteredNames) =>
          IF ArgsConvertible(TypesOf(last.args),
                             DeclaredArgs(DescriptorNamed(last.d)))
          THEN /\ Dispatched
               /\ last.kind \in {"returned", "crashed"}
               /\ last.diags = {}
               /\ diags = {}
          ELSE /\ last.kind = "static_assert"
               /\ last.diags = {WrongArguments}
               /\ last.creator = 0
               /\ phase = "ill_formed"
    /\ \A d \in CallDescriptors : \A args \in ArgLists :
          dispatch_enabled(d, TypesOf(args), abstractList)
              # diagnostic_enabled(d, TypesOf(args), abstractList)

\* create<IValueProduct<float>>(0.5) with 0.5 a double is dispatched
C3_Witness ==
    /\ last.op = "create"
    /\ last.d = IFloatValue.name
    /\ last.d \in RegisteredNames
    /\ last.args = <<Val("double", 1)>>
    /\ last.kind = "returned"
    /\ last.val = Val("float", 1)

\* C4: whenever the two lists differ in length, an empty list included,
\* instantiating the concrete factory fails with the "different length"
\* static assertion, and no create call has run.
C4_LengthMismatchDiagnosed ==
    (phase # "configured" /\ Len(abstractList) # Len(concreteList)) =>
        /\ phase = "ill_formed"
        /\ DifferentLength \in diags
        /\ last.op = "none"
        /\ heap = <<>>

\* the positions whose creator is default_concrete_creator
DefaultPairs ==
    {i \in 1..Len(abstractList) :
        PolicyOf(creator, default_abstract_creator(abstractList[i]))
            = "default"}

\* lists the chain builder accepts
Zipped ==
    /\ phase # "configured"
    /\ Len(abstractList) = Len(concreteList)
    /\ Len(abstractList) >= 1
    /\ ~HasDuplicates(abstractList)

\* the factory was built: it is in use, or a call on it has trapped
Accepted == phase \in {"assembled", "crashed"}

\* std::is_constructible<Ret, Concrete> for a value contract
is_constructible_from_value(Ret, Concrete) ==
    Ret.k = "value" /\ Ret.of \in Concrete.bases

\* C5 as stated: a pair is accepted exactly when the implementation is
\* constructible from the contract's arguments and the result type is
\* constructible from a pointer to the implementation or, for a value
\* contract, from an implementation instance; each failure has its message
\* and is reported before any create call.
C5_PointerOrValue ==
    Zipped =>
        LET ctx(i) == default_abstract_creator(abstractList[i])
            bad1 == {i \in DefaultPairs :
                        ~is_constructible(concreteList[i], ctx(i).args)}
            bad2 == {i \in DefaultPairs :
                        /\ ~is_constructible_from_ptr(ctx(i).ret,
                                                      concreteList[i])
                        /\ ~is_constructible_from_value(ctx(i).ret,
                                                        concreteList[i])}
        IN  /\ Accepted <=> (bad1 = {} /\ bad2 = {})
            /\ (NotConstructible \in diags) <=> (bad1 # {})
            /\ (RetNotConstructible \in diags) <=> (bad2 # {})
            /\ phase = "ill_formed" => last.op = "none" /\ heap = <<>>

\* C5 as amended: a pair is accepted exactly when the implementation is
\* constructible from the contract's arguments and the result type is
\* constructible from a pointer to the implementation (a value contract has
\* no other way in); each failure has its message and is reported before
\* any create call.
C5_PointerOnly ==
    Zipped =>
        LET ctx(i) == default_abstract_creator(abstractList[i])
            bad1 == {i \in DefaultPairs :
                        ~is_constructible(concreteList[i], ctx(i).args)}
            bad2 == {i \in DefaultPairs :
                        ~is_constructible_from_ptr(ctx(i).ret,
                                                  concreteList[i])}
        IN  /\ Accepted <=> (bad1 = {} /\ bad2 = {})
            /\ (NotConstructible \in diags) <=> (bad1 # {})
            /\ (RetNotConstructible \in diags) <=> (bad2 # {})
            /\ phase = "ill_formed" => last.op = "none" /\ heap = <<>>

\* a value contract whose result is the implementation by value, paired
\* with that implementation under default_concrete_creator, is rejected
C5_Witness ==
    /\ Zipped
    /\ creator = DefaultCreator
    /\ Len(abstractList) = 1
    /\ abstractList[1].ret.k = "value"
    /\ is_constructible(concreteList[1], abstractList[1].args)
    /\ is_constructible_from_value(abstractList[1].ret, concreteList[1])
    /\ phase = "ill_formed"
    /\ diags = {RetNotConstructible}

\* the last operation was a create that default_concrete_creator served
DefaultCreated ==
    /\ Dispatched
    /\ last.kind = "returned"
    /\ chain[last.creator].policy = "default"

\* C6 as stated: a create served by default_concrete_creator returns a new
\* instance of the implementation bound to D that was constructed with
\* exactly the supplied arguments, in their order (compared by value, so
\* that true for 1 is no difference).
C6_ExactArguments ==
    DefaultCreated =>
        /\ last.obj = Len(heap)
        /\ heap[last.obj].cls = chain[last.creator].concrete.name
        /\ Len(heap[last.obj].ctorArgs) = Len(last.args)
        /\ \A k \in 1..Len(last.args) :
              heap[last.obj].ctorArgs[k].h = last.args[k].h

\* C6 as amended: every create served by default_concrete_creator
\* constructs exactly one object, an instance of the implementation bound
\* to D, from the supplied arguments each converted to the parameter type
\* at its position, in the supplied order (so from exactly the supplied
\* arguments when they have the declared types); it returns that object as
\* D's resolved result type, and the object is none of those that existed.
C6_ConvertedArguments ==
    [][(/\ last'.op = "create"
        /\ nCalls' = nCalls + 1
        /\ last'.creator # 0
        /\ chain[last'.creator].policy = "default")
       => LET c == last'.creator
              D == chain[c].context.abstract
              o == last'.obj
          IN  /\ last'.kind = "returned"
              /\ last'.d = D.name
              /\ D = abstractList[c]
              /\ Len(heap') = Len(heap) + 1
              /\ SubSeq(heap', 1, Len(heap)) = heap
              /\ o = Len(heap')
              /\ o \notin 1..Len(heap)
              /\ heap'[o].cls = concreteList[c].name
              /\ heap'[o].clonedFrom = 0
              /\ Len(heap'[o].ctorArgs) = Len(last'.args)
              /\ \A k \in 1..Len(last'.args) :
                    heap'[o].ctorArgs[k]
                        = Convert(last'.args[k], DeclaredArgs(D)[k])
              /\ (TypesOf(last'.args) = DeclaredArgs(D)
                     => heap'[o].ctorArgs = last'.args)
              /\ last'.retType = DeclaredRet(D)
              /\ prototype' = prototype]_vars

\* create<IRawProduct>(0.5, 12) after an earlier create: RawProduct(true, 12)
C6_Witness ==
    /\ DefaultCreated
    /\ last.d = IRawProduct.name
    /\ last.args = <<Val("double", 1), Val("int", 24)>>
    /\ Len(heap) >= 2
    /\ heap[last.obj].ctorArgs = <<Val("bool", 2), Val("int", 24)>>

\* C7: every create call the build accepted completes and returns a result,
\* under every creation policy, also create on a prototype descriptor
\* before an exemplar is set.
C7_EveryCallReturns ==
    /\ phase # "crashed"
    /\ Dispatched =>
          /\ last.kind = "returned"
          /\ last.obj # 0 \/ last.val # NoVal

ClassNamed(n) == CHOOSE c \in PrototypeClasses : c.name = n

\* C8: a create on a prototype creator that holds an exemplar E returns a
\* new object cloned from E, of E's class, which implements D; the creator
\* still holds E and E is as it was; a creator's exemplar changes only by
\* SetPrototype on that creator, so clones of one descriptor never come
\* from the exemplar of another.
C8_ClonesOfOwnExemplar ==
    [][\A i \in 1..Len(chain) :
         /\ (/\ last'.op = "create"
             /\ nCalls' = nCalls + 1
             /\ last'.creator = i
             /\ chain[i].policy = "prototype"
             /\ prototype[i] # 0)
            => LET E == prototype[i]
                   o == last'.obj
               IN  /\ last'.kind = "returned"
                   /\ Len(heap') = Len(heap) + 1
                   /\ SubSeq(heap', 1, Len(heap)) = heap
                   /\ o = Len(heap')
                   /\ o # E
                   /\ heap'[o].clonedFrom = E
                   /\ heap'[o].cls = heap[E].cls
                   /\ heap[E].clonedFrom = 0
                   /\ chain[i].context.abstract.name
                         \in ClassNamed(heap'[o].cls).bases
                   /\ last'.retType = unique_ptr(chain[i].context.abstract.name)
                   /\ prototype' = prototype
         /\ prototype'[i] # prototype[i]
            => last'.op = "SetPrototype" /\ last'.creator = i]_vars

\* exemplars set on both prototype descriptors, then a clone of the first
C8_Witness ==
    /\ phase = "assembled"
    /\ Dispatched
    /\ last.kind = "returned"
    /\ last.d = IPrototypeProductA.name
    /\ \E i, j \in 1..Len(chain) :
          /\ i # j
          /\ last.creator = i
          /\ prototype[i] # 0
          /\ prototype[j] # 0
          /\ heap[prototype[i]].cls = PrototypeProductA.name
          /\ heap[prototype[j]].cls = PrototypeProductB.name
          /\ heap[last.obj].clonedFrom = prototype[i]
          /\ heap[last.obj].cls = PrototypeProductA.name

\* the interfaces made with make_factory_interface: result type only,
\* arguments only, both
Adapted == {IExistingFactoryProduct, IAdaptedArgs, IAdaptedBoth}

\* C9: a factory of adapted interfaces, each paired with an implementation
\* of the interface it adapts that is constructible from its arguments, is
\* accepted under default_concrete_creator, and create returns an instance
\* of that implementation as the supplied, else default, result type.
C9_AdaptedAccepted ==
    (/\ Zipped
     /\ creator = DefaultCreator
     /\ \A i \in 1..Len(abstractList) :
           /\ abstractList[i] \in Adapted
           /\ abstractList[i].bases \ {abstractList[i].name}
                 \subseteq concreteList[i].bases
           /\ is_constructible(concreteList[i], DeclaredArgs(abstractList[i])))
    => /\ Accepted
       /\ diags = {}
       /\ Dispatched =>
             /\ last.retType = DeclaredRet(DescriptorNamed(last.d))
             /\ heap[last.obj].cls = concreteList[last.creator].name

\* C10: create<D>(v) on a value descriptor with ret_type T and ctor_args
\* (T) returns v as a T (v itself when v is a T), constructs no object and
\* leaves every creator's exemplar and the rest of the factory as it was.
C10_ValueReturned ==
    [][(/\ last'.op = "create"
        /\ nCalls' = nCalls + 1
        /\ last'.creator # 0
        /\ chain[last'.creator].policy = "value")
       => LET D == chain[last'.creator].context.abstract
          IN  /\ last'.kind = "returned"
              /\ D.ret.k = "value"
              /\ D.args = <<D.ret.of>>
              /\ last'.retType = D.ret
              /\ Len(last'.args) = 1
              /\ last'.val = Convert(last'.args[1], D.ret.of)
              /\ (last'.args[1].t = D.ret.of => last'.val = last'.args[1])
              /\ last'.obj = 0
              /\ UNCHANGED <<heap, prototype, phase, diags, chain,
                             abstractList, concreteList, creator>>]_vars

\* create<IValueProduct<int>>(12) returns 12 after an exemplar was set and
\* an object constructed
C10_Witness ==
    /\ Dispatched
    /\ last.d = IIntValue.name
    /\ last.args = <<Val("int", 24)>>
    /\ last.val = Val("int", 24)
    /\ last.kind = "returned"
    /\ Len(heap) = 2
    /\ \E i \in 1..Len(prototype) : prototype[i] # 0

\* C11: for lists of equal length n >= 1 the chain builder yields n
\* creators, the i-th made of the i-th contract and the i-th
\* implementation, the last on the abstract factory and every other on the
\* rest of the chain; an assembled factory holds that chain; create<D>
\* reaches the creator at D's position and no other (an object it
\* constructs is of the implementation at that position); and no create or
\* SetPrototype changes the chain or the lists.
C11_PositionalBinding ==
    [][/\ (phase = "configured"
           /\ Len(abstractList) = Len(concreteList)
           /\ Len(abstractList) >= 1)
          => LET n == Len(abstractList)
                 zipped ==
                     [i \in 1..n |->
                         [context |-> [abstract |-> abstractList[i],
                                       ret |-> DeclaredRet(abstractList[i]),
                                       args |-> DeclaredArgs(abstractList[i])],
                          concrete |-> concreteList[i],
                          policy |-> PolicyOf(creator,
                                     default_abstract_creator(abstractList[i])),
                          base |-> IF i = n THEN Root ELSE RestOfChain]]
             IN  /\ generate_creators(creator, context_list(abstractList),
                                      concreteList)
                       = [type |-> zipped, diags |-> {}]
                 /\ (phase' = "assembled" => chain' = zipped)
       /\ (phase' \in {"assembled", "crashed"}
             => /\ Len(chain') = Len(abstractList')
                /\ Len(abstractList') = Len(concreteList')
                /\ Len(abstractList') >= 1)
       /\ (last'.op = "create" /\ last'.creator # 0 /\ nCalls' = nCalls + 1)
          => LET i == last'.creator
             IN  /\ i \in 1..Len(abstractList)
                 /\ abstractList[i].name = last'.d
                 /\ \A j \in 1..Len(abstractList) :
                       abstractList[j].name = last'.d => j = i
                 /\ (chain[i].policy = "default"
                       => heap'[last'.obj].cls = concreteList[i].name)
                 /\ \A j \in 1..Len(prototype) :
                       prototype'[j] = prototype[j]
       /\ (last'.op = "SetPrototype" /\ nCalls' = nCalls + 1)
          => \A j \in 1..Len(prototype) :
                j # last'.creator => prototype'[j] = prototype[j]
       /\ (phase = "assembled"
             => /\ chain' = chain
                /\ abstractList' = abstractList
                /\ concreteList' = concreteList
                /\ creator' = creator)]_vars

\* a factory of two descriptors, the second a prototype: after
\* SetPrototype on it, create of the first reached the first creator
C11_Witness ==
    /\ phase = "assembled"
    /\ Len(chain) = 2
    /\ chain[1].base = RestOfChain
    /\ chain[2].base = Root
    /\ chain[1].concrete # chain[2].concrete
    /\ chain[2].policy = "prototype"
    /\ prototype[2] # 0
    /\ nCalls = 2
    /\ Dispatched
    /\ last.creator = 1
    /\ last.d = abstractList[1].name
    /\ last.obj # 0
    /\ heap[last.obj].cls = concreteList[1].name
====
